---------------------------- MODULE Spec2Model ----------------------------
(***************************************************************************)
(* GitHub link resolution of discord-toolkit-bot.                          *)
(*                                                                         *)
(* Two versions of functions/github/handler.ts are modelled side by side:  *)
(*   variant = "request"  src/src/functions/github/handler.ts              *)
(*   variant = "fetch"    src/unnamed/part_000 (lines 1-187), followed by   *)
(*                        the "Resolve GitHub links" command (189-242).    *)
(*                                                                         *)
(* Strings are modelled by what the code reads of them: their length, and  *)
(* for a line of a file its leading indentation and whether it contains a  *)
(* triple backtick.  A file is the sequence of its lines.                  *)
(***************************************************************************)
EXTENDS Integers, Sequences, FiniteSets, TLC

VARIABLES
    variant,    \* which version of handler.ts runs
    text,       \* args.message.content: the URLs it contains, in order
    remote,     \* the file the remote host serves during this behaviour
    pc,         \* position of messageContext / resolveGitHubResults
    matches,    \* GitHubMatchResult[] handed to resolveGitHubResults
    idx,        \* number of matches the for-loop has consumed
    results,    \* ResolvedGitHubResult[] being built
    log,        \* history: what happened to each consumed match
    replies     \* interaction.reply calls made so far

vars == <<variant, text, remote, pc, matches, idx, results, log, replies>>

---------------------------------------------------------------------------
(* Bounds of the model *)

MaxUrls == 3        \* URLs in one message
MaxLines == 2       \* lines in a served file
MaxLineNo == 3      \* largest line number written in a URL
ExampleLines == 50          \* the 50-line file of the L1-L1000000 example
ExampleEndLine == 1000000   \* its requested end line

---------------------------------------------------------------------------
(* Arithmetic of JavaScript built-ins *)

Min(a, b) == IF a < b THEN a ELSE b
Max(a, b) == IF a > b THEN a ELSE b

RECURSIVE Digits(_)
\* String(n).length
Digits(n) == IF n < 0 THEN 1 + Digits(0 - n)
             ELSE IF n < 10 THEN 1 ELSE 1 + Digits(n \div 10)

RECURSIVE SumLen(_)
SumLen(s) == IF s = << >> THEN 0 ELSE Head(s) + SumLen(Tail(s))

\* Array.prototype.slice(start, end): negative indices count from the end
SliceIndex(i, n) == IF i < 0 THEN Max(n + i, 0) ELSE Min(i, n)
ArraySlice(s, start, end) ==
    LET k == SliceIndex(start, Len(s))
        f == SliceIndex(end, Len(s))
    IN  IF f > k THEN SubSeq(s, k + 1, f) ELSE << >>

\* array.join("\n").length for elements of the given lengths
JoinLen(lens) == IF lens = << >> THEN 0 ELSE SumLen(lens) + Len(lens) - 1

---------------------------------------------------------------------------
(* Files *)

ShortLine == [indent |-> 2, len |-> 12, fence |-> FALSE]
LongLine == [indent |-> 0, len |-> 1000, fence |-> FALSE]
FenceLine == [indent |-> 2, len |-> 2500, fence |-> TRUE]
LineKinds == {ShortLine, LongLine, FenceLine}

\* << >> is the empty body ""
Files == UNION {[1..n -> LineKinds] : n \in 0..MaxLines}

ExampleFile == [i \in 1..ExampleLines |-> ShortLine]

---------------------------------------------------------------------------
(* URLs.  A URL is what the regular expressions and new URL() read of it:  *)
(* the shape it matches, its pathname, the language its extension maps to  *)
(* and its opts group (a Gist file qualifier and/or L<n>[-L<n>] markers).  *)

NoOpts == [present |-> FALSE, fileLen |-> 0, lines |-> << >>]
LineOpts(ls) == [present |-> TRUE, fileLen |-> 0, lines |-> ls]
GistOpts(ls) == [present |-> TRUE, fileLen |-> 4, lines |-> ls]

\* https://github.com/o/r/blob/main/a.ts#L1-L2
UrlNormal == [kind |-> "normal", path |-> "a", pathLen |-> 19, lang |-> "ts",
              opts |-> LineOpts(<<1, 2>>)]
\* https://gist.github.com/u/0123#file-x-ts
UrlGist == [kind |-> "gist", path |-> "g", pathLen |-> 7, lang |-> "ts",
            opts |-> GistOpts(<< >>)]
\* https://gist.github.com/u/0123 (no file qualifier)
UrlGistBare == [kind |-> "gist", path |-> "n", pathLen |-> 7, lang |-> "ansi",
                opts |-> NoOpts]
\* https://example.org/page
UrlOther == [kind |-> "other", path |-> "o", pathLen |-> 5, lang |-> "ansi",
             opts |-> NoOpts]

Urls == {UrlNormal, UrlGist, UrlGistBare, UrlOther}

Texts == UNION {[1..n -> Urls] : n \in 0..MaxUrls}

\* Every range a URL can spell with line numbers up to MaxLineNo
LineRanges ==
    {<< >>} \cup {<<s>> : s \in 0..MaxLineNo}
            \cup {<<s, e>> : s \in 0..MaxLineNo, e \in 0..MaxLineNo}

---------------------------------------------------------------------------
(* validators and matchGitHubUrls *)

\* validators.find((validator) => validator.regex.exec(url)): Normal first
validators == <<"normal", "gist">>

FindValidator(url) ==
    IF \E i \in 1..Len(validators) : validators[i] = url.kind
    THEN url.kind ELSE "none"

\* text.matchAll(URL_REGEX): one match array per occurrence, each a new
\* object; its index is what tells two of them apart
MatchAll(t) == [i \in 1..Len(t) |-> [index |-> i, url |-> t[i]]]

RECURSIVE InsertAll(_, _)
\* new Set(iterable): insertion order, an element equal (SameValueZero) to
\* one already present is not added.  Objects are equal only to themselves.
InsertAll(set, s) ==
    IF s = << >> THEN set
    ELSE InsertAll(IF \E i \in 1..Len(set) : set[i] = Head(s)
                   THEN set ELSE Append(set, Head(s)), Tail(s))

NewSet(s) == InsertAll(<< >>, s)

\* .map(([url]) => ...) of one element; "null" for the rejected ones
ToMatch(e) ==
    IF FindValidator(e.url) = "none" THEN [type |-> "null"]
    ELSE [type |-> FindValidator(e.url), url |-> e.url, opts |-> e.url.opts]

matchGitHubUrls(t) ==
    LET urls == NewSet(MatchAll(t))
        mapped == [i \in 1..Len(urls) |-> ToMatch(urls[i])]
    IN  SelectSeq(mapped, LAMBDA m : m.type # "null")

\* converter(url): FALSE when it returns null.  The Normal converter always
\* returns a string; the Gist one returns null when a group is missing
\* (!user || !id || !opts in handler.ts, !id || !opts in part_000), and of
\* these groups only opts is optional in a URL the Gist pattern matched
ConverterOk(v, m) ==
    IF m.type = "normal" THEN TRUE
    ELSE m.opts.present

---------------------------------------------------------------------------
(* Helpers imported from ./utils.js and ../../util/array.js *)

\* resolveLines(opts): an absent end line is reported by hasEnd = FALSE
resolveLines(opts) ==
    IF Len(opts.lines) = 0
    THEN [startLine |-> 1, endLine |-> 0, hasEnd |-> FALSE]
    ELSE IF Len(opts.lines) = 1
    THEN [startLine |-> opts.lines[1], endLine |-> 0, hasEnd |-> FALSE]
    ELSE [startLine |-> opts.lines[1], endLine |-> opts.lines[2],
          hasEnd |-> TRUE]

\* resolveFileLanguage(name).length
LangLen(lang) == IF lang = "ansi" THEN 4 ELSE 2

generateHeader(startLine, endLine, path, pathLen, ellipsed) ==
    [startLine |-> startLine, endLine |-> endLine, path |-> path,
     pathLen |-> pathLen, ellipsed |-> ellipsed]

\* characters the header adds to the path when ellipsed
EllipsedLen == 11

\* header.length: the path, the line range and the ellipsed marker
HeaderLen(h) ==
    h.pathLen + 1
    + (IF h.startLine = h.endLine THEN 5 + Digits(h.startLine)
       ELSE 6 + Digits(h.startLine) + 1 + Digits(h.endLine))
    + (IF h.ellipsed THEN EllipsedLen ELSE 0)

RECURSIVE MinIndent(_)
MinIndent(ls) ==
    IF Len(ls) = 1 THEN Head(ls).indent
    ELSE Min(Head(ls).indent, MinIndent(Tail(ls)))

\* trimLeadingIndent(lines): the indentation all lines share is removed
trimLeadingIndent(ls) ==
    IF ls = << >> THEN << >>
    ELSE [i \in 1..Len(ls) |->
            [indent |-> ls[i].indent - MinIndent(ls),
             len |-> ls[i].len - MinIndent(ls),
             fence |-> ls[i].fence]]

\* characters the no-highlight styling adds to a formatted line
AnsiLen == 9

\* formatLine(line, startLine, endLine, index, ansi).length: the line number
\* padded to the width of the last one, a separator, the line
formatLine(line, startLine, endLine, index, ansi) ==
    Max(Digits(startLine + index), Digits(endLine)) + 3 + line.len
    + (IF ansi THEN AnsiLen ELSE 0)

RECURSIVE TruncateFrom(_, _, _)
TruncateFrom(lens, used, maxLength) ==
    IF lens = << >> \/ used + Head(lens) > maxLength THEN << >>
    ELSE <<Head(lens)>> \o TruncateFrom(Tail(lens), used + Head(lens), maxLength)

\* truncateArray(array, maxLength): the longest prefix whose elements fit
truncateArray(lens, maxLength) == TruncateFrom(lens, 0, maxLength)

\* codeBlock(lang, content).length of discord.js: ```lang\ncontent\n```
codeBlock(langLen, contentLen) == 3 + langLen + 1 + contentLen + 1 + 3

---------------------------------------------------------------------------
(* resolveGitHubResults: the body of its for-loop *)

SAFE_BOUNDARY == 100
MaxContent == 2000
\* "Couldn't find any lines".length
PlaceholderLen == 23

\* the outcomes of await request(rawUrl) / await fetch(rawData)
Responses(v, m) ==
    IF ~ConverterOk(v, m) THEN {"none"}
    ELSE IF v = "fetch" /\ m.type = "gist"
    THEN {"error", "status404", "ok", "okFileAbsent"}
    ELSE {"error", "status404", "ok"}

\* Math.min(startLine, n) / Math.min(startLine || 1, n)
SafeStartLine(v, r, n) ==
    IF v = "request" THEN Min(r.startLine, n)
    ELSE Min(IF r.startLine = 0 THEN 1 ELSE r.startLine, n)

\* Math.min(endLine ? endLine : startLine, n)
\* Math.min(endLine ? endLine : startLine || n, n)
SafeEndLine(v, r, n) ==
    IF v = "request"
    THEN Min(IF r.endLine # 0 THEN r.endLine ELSE r.startLine, n)
    ELSE Min(IF r.endLine # 0 THEN r.endLine
             ELSE IF r.startLine # 0 THEN r.startLine ELSE n, n)

\* path.length: new URL(url).pathname, for a Gist of the fetch version
\* followed by "#file-" and the file qualifier
PathLen(v, m) ==
    IF v = "fetch" /\ m.type = "gist"
    THEN m.url.pathLen + 6 + m.opts.fileLen
    ELSE m.url.pathLen

\* name of the attachment: path, for a Gist `${path}.${lang}`
AttachmentName(v, m) ==
    IF m.type = "gist" THEN PathLen(v, m) + 1 + LangLen(m.url.lang)
    ELSE PathLen(v, m)

HasCodeBlock_FirstLineOnly(linesRequested) ==
    linesRequested # << >> /\ linesRequested[1].fence

\* linesRequested.some((line) => line.includes("```"))
HasCodeBlock(linesRequested) ==
    \E i \in 1..Len(linesRequested) : linesRequested[i].fence

AsAttachment(v, m, header, linesRequested) ==
    [content |-> [header |-> header, code |-> FALSE, kept |-> 0,
                  length |-> HeaderLen(header)],
     files |-> <<[attachment |-> linesRequested,
                  nameLen |-> AttachmentName(v, m)]>>]

RegeneratedHeader_RequestedEnd(safeStartLine, kept, sliced, path, pathLen) ==
    generateHeader(safeStartLine, sliced + safeStartLine - 1, path, pathLen,
                   kept # sliced)

\* the header of the inline content: generateHeader({startLine:
\* safeStartLine, endLine: safeLinesRequested.length + safeStartLine - 1,
\* path, ellipsed: safeLinesRequested.length !== linesRequested.length})
RegeneratedHeader(safeStartLine, kept, sliced, path, pathLen) ==
    generateHeader(safeStartLine, kept + safeStartLine - 1, path, pathLen,
                   kept # sliced)

Oversize_DoubleLimit(content) == content >= 2 * MaxContent

\* if (content.length >= 2_000)
Oversize(content) == content >= MaxContent

\* lines 95-159 of handler.ts, 107-183 of part_000: from resolveLines to push
Render(v, m, fileContents) ==
    LET r == resolveLines(m.opts)
        lang == m.url.lang
        parsedLines == fileContents
        safeStartLine == SafeStartLine(v, r, Len(parsedLines))
        safeEndLine == SafeEndLine(v, r, Len(parsedLines))
        linesRequested == ArraySlice(parsedLines, safeStartLine - 1, safeEndLine)
        header == generateHeader(safeStartLine, safeEndLine, m.url.path,
                                 PathLen(v, m), FALSE)
        trimmed == trimLeadingIndent(linesRequested)
        formattedLines ==
            [i \in 1..Len(trimmed) |->
                formatLine(trimmed[i], safeStartLine, safeEndLine, i - 1,
                           lang = "ansi")]
        safeLinesRequested ==
            truncateArray(formattedLines,
                MaxContent - (HeaderLen(header) + SAFE_BOUNDARY + LangLen(lang)))
        header2 == RegeneratedHeader(safeStartLine, Len(safeLinesRequested),
                                     Len(linesRequested), m.url.path,
                                     PathLen(v, m))
        joined == JoinLen(safeLinesRequested)
        content == HeaderLen(header2) + 1
                   + codeBlock(LangLen(lang),
                               IF joined = 0 THEN PlaceholderLen ELSE joined)
        aux == [safeStartLine |-> safeStartLine, safeEndLine |-> safeEndLine,
                lineCount |-> Len(parsedLines), range |-> r,
                linesRequested |-> linesRequested,
                kept |-> Len(safeLinesRequested),
                truncatedLength |-> content,
                fullLength |-> HeaderLen(header) + 1
                    + codeBlock(LangLen(lang), JoinLen(formattedLines))]
    IN  IF HasCodeBlock(linesRequested)
        THEN [kind |-> "push", aux |-> aux,
              result |-> AsAttachment(v, m, header, linesRequested)]
        ELSE IF Oversize(content)
        THEN [kind |-> "push", aux |-> aux,
              result |-> AsAttachment(v, m, header, linesRequested)]
        ELSE [kind |-> "push", aux |-> aux,
              result |-> [content |-> [header |-> header2, code |-> TRUE,
                                       kept |-> Len(safeLinesRequested),
                                       length |-> content],
                          files |-> << >>]]

\* one pass of the loop body for match m, the fetch answering resp
ResolveOne(v, m, resp, file) ==
    IF ~ConverterOk(v, m) THEN [kind |-> "skip", why |-> "converter"]
    ELSE IF resp = "error" THEN [kind |-> "throw"]
    ELSE IF resp = "status404" THEN [kind |-> "skip", why |-> "status"]
    ELSE IF resp = "okFileAbsent" THEN [kind |-> "skip", why |-> "absent"]
    ELSE IF file = << >> THEN [kind |-> "skip", why |-> "empty"]
    ELSE Render(v, m, file)

---------------------------------------------------------------------------
(* State machine *)

Push_Front(rs, r) == <<r>> \o rs

\* results.push(...)
Push(rs, r) == Append(rs, r)

NoResultReply ==
    [ephemeral |-> TRUE, kind |-> "noResult", length |-> 70, files |-> << >>]

RECURSIVE ConcatFiles(_)
\* accumulator[1].push(...current.files) over the results
ConcatFiles(rs) ==
    IF rs = << >> THEN << >> ELSE Head(rs).files \o ConcatFiles(Tail(rs))

\* contentParts.join("\n").slice(0, 2_000) with every file of every result
ResolvedReply(rs) ==
    [ephemeral |-> TRUE, kind |-> "resolved",
     length |-> Min(JoinLen([i \in 1..Len(rs) |-> rs[i].content.length]),
                    MaxContent),
     files |-> ConcatFiles(rs)]

\* A user runs "Resolve GitHub links" on a message
Init ==
    /\ variant \in {"request", "fetch"}
    /\ text \in Texts
    /\ remote \in Files
    /\ pc = "start"
    /\ matches = << >>
    /\ idx = 0
    /\ results = << >>
    /\ log = << >>
    /\ replies = << >>

\* messageContext up to its second await: matchGitHubUrls, the reply when
\* nothing matched, the call of resolveGitHubResults
messageContext ==
    /\ pc = "start"
    /\ matches' = matchGitHubUrls(text)
    /\ IF Len(matches') = 0
       THEN /\ replies' = Append(replies, NoResultReply)
            /\ pc' = "done"
       ELSE /\ replies' = replies
            /\ pc' = "resolving"
    /\ UNCHANGED <<variant, text, remote, idx, results, log>>

\* one iteration of the for-loop of resolveGitHubResults; a rejected fetch
\* rejects the promise the function returned
resolveStep ==
    /\ pc = "resolving"
    /\ idx < Len(matches)
    /\ \E resp \in Responses(variant, matches[idx + 1]) :
         LET o == ResolveOne(variant, matches[idx + 1], resp, remote)
         IN  /\ pc' = IF o.kind = "throw" THEN "thrown" ELSE pc
             /\ results' = IF o.kind = "push"
                           THEN Push(results,
                                     [content |-> o.result.content,
                                      files |-> o.result.files,
                                      of |-> idx + 1])
                           ELSE results
             /\ log' = Append(log,
                          IF o.kind = "push"
                          THEN [kind |-> "push", resp |-> resp, aux |-> o.aux]
                          ELSE [kind |-> o.kind, resp |-> resp])
    /\ idx' = idx + 1
    /\ UNCHANGED <<variant, text, remote, matches, replies>>

\* return results
resolveReturn ==
    /\ pc = "resolving"
    /\ idx = Len(matches)
    /\ pc' = "returned"
    /\ UNCHANGED <<variant, text, remote, matches, idx, results, log, replies>>

\* messageContext after await resolveGitHubResults(matches)
replyResolved ==
    /\ pc = "returned"
    /\ replies' = Append(replies, IF Len(results) = 0 THEN NoResultReply
                                  ELSE ResolvedReply(results))
    /\ pc' = "done"
    /\ UNCHANGED <<variant, text, remote, matches, idx, results, log>>

Next == messageContext \/ resolveStep \/ resolveReturn \/ replyResolved

Spec == Init /\ [][Next]_vars

---------------------------------------------------------------------------
(* resolveGitHubResults called on one match of any shape *)

ShortPath == 19
LongPath == 2000

RenderMatches ==
    {[type |-> t,
      url |-> [kind |-> t, path |-> "p", pathLen |-> pl, lang |-> lg, opts |-> o],
      opts |-> o] :
        t \in {"normal", "gist"}, pl \in {ShortPath, LongPath},
        lg \in {"ts", "ansi"},
        o \in {LineOpts(ls) : ls \in LineRanges} \cup {NoOpts}}

ExampleMatch ==
    [type |-> "normal",
     url |-> [kind |-> "normal", path |-> "p", pathLen |-> ShortPath,
              lang |-> "ts", opts |-> LineOpts(<<1, ExampleEndLine>>)],
     opts |-> LineOpts(<<1, ExampleEndLine>>)]

InitResolve ==
    /\ variant \in {"request", "fetch"}
    /\ text = << >>
    /\ \/ matches \in {<<m>> : m \in RenderMatches} /\ remote \in Files
       \/ matches = <<ExampleMatch>> /\ remote = ExampleFile
    /\ pc = "resolving"
    /\ idx = 0
    /\ results = << >>
    /\ log = << >>
    /\ replies = << >>

NextResolve == resolveStep \/ resolveReturn

SpecResolve == InitResolve /\ [][NextResolve]_vars

---------------------------------------------------------------------------
(* Properties of the command and of the resolution pass (under Spec) *)

\* match i resolved: its converter gave a URL, the fetch answered 200 with
\* the file (for a Gist: with the file its qualifier names), not empty
Succeeded(i) ==
    /\ ConverterOk(variant, matches[i])
    /\ log[i].resp = "ok"
    /\ remote # << >>

\* match i failed in one of the ways a single match can fail
Failed(i) ==
    \/ ~ConverterOk(variant, matches[i])
    \/ log[i].resp \in {"status404", "error", "okFileAbsent"}

Consumed == 1..Len(log)

C2_FailureNeverAborts ==
    /\ pc # "thrown"
    /\ \A i \in Consumed :
         Failed(i) =>
            /\ log[i].kind = "skip"
            /\ \A k \in 1..Len(results) : results[k].of # i

\* the ways of failing that do leave the pass running
C2_DropsWithoutFetchError ==
    \A i \in Consumed :
        (Failed(i) /\ log[i].resp # "error") =>
            /\ log[i].kind = "skip"
            /\ \A k \in 1..Len(results) : results[k].of # i

\* C4: no two matches returned by matchGitHubUrls have the same url
C4_NoDuplicateUrls ==
    \A i \in 1..Len(matches), j \in 1..Len(matches) :
        i # j => matches[i].url # matches[j].url

\* C9: once the command has ended, exactly one ephemeral reply was sent:
\* the no-result message when nothing matched or nothing resolved, else the
\* contents joined by newlines and cut to 2000 characters with every file
Finished == pc \in {"done", "thrown"}

C9_ExactlyOneReply ==
    Finished =>
        /\ Len(replies) = 1
        /\ replies[1].ephemeral
        /\ IF Len(matches) = 0 \/ Len(results) = 0
           THEN replies[1] = NoResultReply /\ (Len(matches) = 0 => Len(log) = 0)
           ELSE /\ replies[1].kind = "resolved"
                /\ replies[1].length =
                     Min(JoinLen([k \in 1..Len(results) |->
                                     results[k].content.length]), MaxContent)
                /\ replies[1].files = ConcatFiles(results)

\* the same on every path where resolveGitHubResults returns
C9_OneReplyWhenResolutionReturns ==
    /\ Len(replies) <= 1
    /\ pc = "done" =>
        /\ Len(replies) = 1
        /\ replies[1].ephemeral
        /\ IF Len(matches) = 0 \/ Len(results) = 0
           THEN replies[1] = NoResultReply /\ (Len(matches) = 0 => Len(log) = 0)
           ELSE /\ replies[1].kind = "resolved"
                /\ replies[1].length <= MaxContent
                /\ Len(replies[1].files) =
                     SumLen([k \in 1..Len(results) |-> Len(results[k].files)])

---------------------------------------------------------------------------
(* Properties of one resolved match (under SpecResolve) *)

\* the matches that produced an entry, with their entry
Entries == {k \in 1..Len(results) : log[results[k].of].kind = "push"}
AuxOf(k) == log[results[k].of].aux
IsInline(k) == results[k].files = << >>

\* C3: the content of every entry has at most 2000 characters
C3_ContentWithinLimit ==
    \A k \in 1..Len(results) : results[k].content.length <= MaxContent

\* what does hold: inline content stays under 2000 characters, and the
\* content of an attachment entry is its header, as long as the path makes it
C3_InlineContentWithinLimit ==
    \A k \in Entries :
        IF IsInline(k) THEN results[k].content.length < MaxContent
        ELSE results[k].content.length = HeaderLen(results[k].content.header)
             /\ results[k].content.length > results[k].content.header.pathLen

\* C5: the start and end line used for slicing and for the header lie in
\* [1, lineCount], whatever range was parsed, and nothing is raised
C5_RangeClamped ==
    /\ pc # "thrown" \/ log[Len(log)].resp = "error"
    /\ \A k \in Entries :
         /\ AuxOf(k).safeStartLine \in 1..AuxOf(k).lineCount
         /\ AuxOf(k).safeEndLine \in 1..AuxOf(k).lineCount
         /\ ~IsInline(k) =>
              /\ results[k].content.header.startLine \in 1..AuxOf(k).lineCount
              /\ results[k].content.header.endLine \in 1..AuxOf(k).lineCount

\* C5, the example: L1-L1000000 on a 50-line file resolves to lines 1 to 50
C5_ExampleClamped ==
    (matches = <<ExampleMatch>> /\ remote = ExampleFile) =>
        \A k \in Entries :
            /\ AuxOf(k).safeStartLine = 1
            /\ AuxOf(k).safeEndLine = Len(ExampleFile)
            /\ AuxOf(k).linesRequested = ExampleFile

\* the fetch version alone keeps C5
C5_RangeClampedByFetchVersion ==
    variant = "fetch" =>
        \A k \in Entries :
            /\ AuxOf(k).safeStartLine \in 1..AuxOf(k).lineCount
            /\ AuxOf(k).safeEndLine \in 1..AuxOf(k).lineCount

\* C6: without an end line the end line is the start line, and when the
\* start line is absent or zero too the whole file is requested
C6_ImplicitEndLine ==
    \A k \in Entries :
        ~AuxOf(k).range.hasEnd =>
            IF AuxOf(k).range.startLine = 0
            THEN /\ AuxOf(k).safeStartLine = 1
                 /\ AuxOf(k).safeEndLine = AuxOf(k).lineCount
                 /\ AuxOf(k).linesRequested = remote
            ELSE /\ AuxOf(k).safeEndLine = AuxOf(k).safeStartLine
                 /\ Len(AuxOf(k).linesRequested) = 1

C6_ImplicitEndLineByFetchVersion ==
    variant = "fetch" => C6_ImplicitEndLine


FenceIn(ls) == \E i \in 1..Len(ls) : ls[i].fence

\* s is a run of consecutive lines of the served file, as served
RawRunOfRemote(s) ==
    \E a \in 1..Len(remote) :
        /\ a + Len(s) - 1 <= Len(remote)
        /\ \A j \in 1..Len(s) : s[j] = remote[a + j - 1]

\* C7: a slice with a triple backtick in any line gives header-only content
\* and one attachment holding the sliced lines as served, whatever its size
C7_FenceGivesRawAttachment ==
    \A k \in Entries :
        FenceIn(AuxOf(k).linesRequested) =>
            /\ Len(results[k].files) = 1
            /\ results[k].files[1].attachment = AuxOf(k).linesRequested
            /\ RawRunOfRemote(results[k].files[1].attachment)
            /\ ~results[k].content.code
            /\ results[k].content.length = HeaderLen(results[k].content.header)
            /\ results[k].content.header.startLine = AuxOf(k).safeStartLine
            /\ results[k].content.header.endLine = AuxOf(k).safeEndLine
            /\ ~results[k].content.header.ellipsed

C7_Witness ==
    \E k \in Entries :
        /\ Len(AuxOf(k).linesRequested) = 2
        /\ AuxOf(k).linesRequested[1] = ShortLine
        /\ AuxOf(k).linesRequested[2] = FenceLine
        /\ Len(results[k].files) = 1
        /\ results[k].files[1].attachment = <<ShortLine, FenceLine>>

\* C8 as stated: a range (free of code fences) whose full rendering exceeds
\* 2000 characters ends in attachment mode, and the header's end line is the
\* last line kept by the truncation
C8_LongRangeFallsBackToAttachment ==
    \A k \in Entries :
        (AuxOf(k).fullLength > MaxContent /\ ~FenceIn(AuxOf(k).linesRequested)) =>
            /\ ~IsInline(k)
            /\ results[k].content.header.endLine
                 = AuxOf(k).safeStartLine + AuxOf(k).kept - 1

\* C8 as amended: such a range, free of code fences, is truncated first; if
\* the truncated content is under 2000 characters it is sent inline, with a
\* header ending at the last kept line and marked ellipsed; otherwise the
\* entry is header-only with one attachment and the header keeps the clamped
\* requested end line
C8_LongRangeTruncatedBeforeFallback ==
    \A k \in Entries :
        (AuxOf(k).fullLength > MaxContent /\ ~FenceIn(AuxOf(k).linesRequested)) =>
            IF AuxOf(k).truncatedLength < MaxContent
            THEN /\ IsInline(k)
                 /\ results[k].content.length = AuxOf(k).truncatedLength
                 /\ AuxOf(k).kept < Len(AuxOf(k).linesRequested)
                 /\ results[k].content.header.endLine
                      = AuxOf(k).safeStartLine + AuxOf(k).kept - 1
                 /\ results[k].content.header.ellipsed
            ELSE /\ Len(results[k].files) = 1
                 /\ results[k].files[1].attachment = AuxOf(k).linesRequested
                 /\ results[k].content.length
                      = HeaderLen(results[k].content.header)
                 /\ results[k].content.header.endLine = AuxOf(k).safeEndLine
                 /\ ~results[k].content.header.ellipsed

C8_Witness ==
    \E k \in Entries :
        /\ AuxOf(k).fullLength > MaxContent
        /\ AuxOf(k).linesRequested = <<LongLine, LongLine>>
        /\ IsInline(k)
        /\ AuxOf(k).kept = 1

\* C10: the header of an inline entry starts at the start line, ends at
\* start line + kept lines - 1, and is ellipsed iff fewer lines were kept
\* than were sliced
C10_InlineHeaderRegenerated ==
    \A k \in Entries :
        IsInline(k) =>
            /\ results[k].content.code
            /\ results[k].content.kept <= Len(AuxOf(k).linesRequested)
            /\ results[k].content.header.startLine = AuxOf(k).safeStartLine
            /\ results[k].content.header.endLine
                 = AuxOf(k).safeStartLine + results[k].content.kept - 1
            /\ results[k].content.header.ellipsed
                 <=> (results[k].content.kept < Len(AuxOf(k).linesRequested))

C10_Witness ==
    \E k \in Entries :
        /\ IsInline(k)
        /\ results[k].content.header.ellipsed
        /\ results[k].content.header.startLine = 1
        /\ results[k].content.header.endLine = 1
        /\ AuxOf(k).safeEndLine = 2

===========================================================================
